---- MODULE Spec2Model ----
(***************************************************************************)
(* Cost estimation engine of kosztorys-app (src/app.py, section 3          *)
(* "Obliczenia"): money, hours_for_montage_days and compute_summary, with  *)
(* the parts of the form that feed it (revenue from capacity, the worker   *)
(* table and its two buttons) and the cost table of build_pdf.             *)
(*                                                                         *)
(* A Decimal is modelled as [nan |-> FALSE, c |-> hundredths] (1.00 is     *)
(* D(100)) or as the quiet NaN.  Values handed to the engine are records   *)
(* [k |-> kind, m |-> thousandths], so that an amount such as 10.005 that  *)
(* money() has to round can be written, and so that the values money()     *)
(* cannot parse (None, blank text, other text, NaN, infinity) are inputs.  *)
(* Percentages are records [k |-> kind, h |-> halves of a percent]: the    *)
(* form passes them as binary floats, and Decimal(float) is exact for      *)
(* multiples of 0.5.                                                       *)
(***************************************************************************)
EXTENDS Integers, Sequences, FiniteSets, TLC

VARIABLES kwota_calkowita, waluta_przychodu, podatek_proc, zus_kwota,
          nieprzewidziane_mode, nieprzewidziane_proc,
          nieprzewidziane_kwota_manual, paliwo_amort, hotel_day_rate,
          dni_montazu, dodatkowe_df, pracownicy_df, pracownicy_index,
          from_kwp, kwp, stawka_kwp, summary, t2_data, button, mask_puste

vars == <<kwota_calkowita, waluta_przychodu, podatek_proc, zus_kwota,
          nieprzewidziane_mode, nieprzewidziane_proc,
          nieprzewidziane_kwota_manual, paliwo_amort, hotel_day_rate,
          dni_montazu, dodatkowe_df, pracownicy_df, pracownicy_index,
          from_kwp, kwp, stawka_kwp, summary, t2_data, button, mask_puste>>

----------------------------------------------------------------------------
(* Decimal arithmetic as Python's decimal module performs it.              *)

D(c) == [nan |-> FALSE, c |-> c]
NaN  == [nan |-> TRUE, c |-> 0]

Abs(n) == IF n < 0 THEN -n ELSE n

\* n/d rounded to an integer, ties away from zero (ROUND_HALF_UP).
RoundHalfUp(n, d) ==
    LET q == Abs(n) \div d
        r == Abs(n) % d
        a == IF 2 * r >= d THEN q + 1 ELSE q
    IN  IF n < 0 THEN -a ELSE a

\* n/d rounded to an integer, ties to the even neighbour (ROUND_HALF_EVEN,
\* the rounding of the default decimal context).
RoundHalfEven(n, d) ==
    LET q == Abs(n) \div d
        r == Abs(n) % d
        a == IF 2 * r > d THEN q + 1
             ELSE IF 2 * r = d THEN (IF q % 2 = 0 THEN q ELSE q + 1)
             ELSE q
    IN  IF n < 0 THEN -a ELSE a

\* A quiet NaN operand makes the result NaN; no exception is raised.
DAdd(a, b) == IF a.nan \/ b.nan THEN NaN ELSE D(a.c + b.c)
DSub(a, b) == IF a.nan \/ b.nan THEN NaN ELSE D(a.c - b.c)

\* x.quantize(Decimal("0.01")) with no rounding argument, for x = n/d
\* hundredths: the context's rounding applies.
quantize(n, d) == D(RoundHalfEven(n, d))

----------------------------------------------------------------------------
(* Values handed to the engine.                                            *)

Num(m)   == [k |-> "num", m |-> m]
NoneVal  == [k |-> "none", m |-> 0]
BlankVal == [k |-> "blank", m |-> 0]
TextVal  == [k |-> "text", m |-> 0]
NaNVal   == [k |-> "nan", m |-> 0]
InfVal   == [k |-> "inf", m |-> 0]

Pct(h)         == [k |-> "num", h |-> h]
PctOther(kind) == [k |-> kind, h |-> 0]

\* Mutant of money: the digits after the second are cut off, not rounded.
money_truncating(v) ==
    CASE v.k = "nan" -> NaN
      [] v.k = "num" -> D(IF v.m < 0 THEN -(Abs(v.m) \div 10) ELSE v.m \div 10)
      [] OTHER       -> D(0)

\* money(v): None and blank text are 0.00; Decimal(str(v)) raises for other
\* text and quantize raises for infinity, both caught and turned into 0.00;
\* NaN parses and quantizes to NaN; a number is rounded half-up to 2 places.
money(v) ==
    CASE v.k = "none"  -> D(0)
      [] v.k = "blank" -> D(0)
      [] v.k = "text"  -> D(0)
      [] v.k = "inf"   -> D(0)
      [] v.k = "nan"   -> NaN
      [] v.k = "num"   -> D(RoundHalfUp(v.m, 10))

\* int(dni_montazu) raises for None, text and NaN.
IntRaises(d) == d.k # "num"

\* Decimal(p) raises for None and for text (blank text included);
\* Decimal(NaN) and Decimal(inf) are built.
DecimalRaises(p) == p.k \in {"none", "text", "blank"}

\* przychod * inf is infinite (or invalid for 0 * inf) and its quantize
\* raises, unless przychod is NaN, which makes the product a quiet NaN.
PercentRaises(przychod, p) ==
    DecimalRaises(p) \/ (p.k = "inf" /\ ~przychod.nan)

\* (przychod * Decimal(p) / Decimal(100)).quantize(Decimal("0.01"))
percent_of(przychod, p) ==
    IF przychod.nan \/ p.k # "num" THEN NaN
    ELSE quantize(przychod.c * p.h, 200)

----------------------------------------------------------------------------
(* hours_for_montage_days                                                  *)

pattern == <<10, 10, 10, 10, 10, 8>>

RECURSIVE SumSeq(_)
SumSeq(s) == IF s = <<>> THEN 0 ELSE Head(s) + SumSeq(Tail(s))

hours_for_montage_days(dni) ==
    LET weeks == dni \div 6
        rem   == dni % 6
    IN  weeks * SumSeq(pattern) + SumSeq(SubSeq(pattern, 1, rem))

----------------------------------------------------------------------------
(* compute_summary, statement by statement.                                *)

Max(a, b) == IF a >= b THEN a ELSE b

\* dni = max(0, int(dni_montazu))
dni_of(d) == Max(0, d.m)

\* hotel_total = (hotel_day * Decimal(dni)).quantize(Decimal("0.01"))
hotel_total_of(hotel_day, dni) ==
    IF hotel_day.nan THEN NaN ELSE quantize(hotel_day.c * dni, 1)

\* dodatkowe_sum: every row's money(Koszt), added in row order.
RECURSIVE dodatkowe_sum_from(_, _)
dodatkowe_sum_from(acc, rows) ==
    IF rows = <<>> THEN acc
    ELSE dodatkowe_sum_from(DAdd(acc, money(Head(rows).Koszt)), Tail(rows))

dodatkowe_sum_of(df) == dodatkowe_sum_from(D(0), df)

\* nieprzewidziane_kwota: a percentage of the revenue, or the manual amount.
nieprzewidziane_kwota_of(mode, przychod, proc, manual) ==
    IF mode = "percent" THEN percent_of(przychod, proc) ELSE money(manual)

\* koszty_w_przychodzie = podatek_kwota + zus + paliwo + hotel_total
\*                        + dodatkowe_sum + nieprzewidziane_kwota
koszty_w_przychodzie_of(podatek, zus, paliwo, hotel, dodatkowe, nieprzew) ==
    DAdd(DAdd(DAdd(DAdd(DAdd(podatek, zus), paliwo), hotel), dodatkowe),
         nieprzew)

\* godz_lacznie_na_osobe = Decimal(hours_for_montage_days(dni)).quantize(..)
godz_lacznie_na_osobe_of(dni) == D(100 * hours_for_montage_days(dni))

\* A name cell without a value (NaN), and str() of it.
MissingName == "<NaN>"
str_of(n) == IF n = MissingName THEN "nan" ELSE n

\* s.strip(): " " is the name made of white space only; the other names
\* carry no white space at their ends.
strip(s) == IF s = " " THEN "" ELSE s

\* name = (str(row.get("Imie i nazwisko", "")) or dash).strip() or dash;
\* "-" stands for the dash.
name_of(n) == IF strip(str_of(n)) = "" THEN "-" ELSE strip(str_of(n))

\* Mutant of waluta_of: no default, a missing currency stays as it is.
waluta_of_without_default(w) == w

\* waluta = (row.get("Waluta", "PLN") or "PLN"); "" stands for a currency
\* that is missing (no such key, or None) or empty.
waluta_of(w) == IF w = "" THEN "PLN" ELSE w

\* wyn = (stawka * godz_lacznie_na_osobe).quantize(Decimal("0.01"))
wyn_of(stawka, godz) ==
    IF stawka.nan \/ godz.nan THEN NaN ELSE quantize(stawka.c * godz.c, 100)

\* wynagrodzenia_per_waluta[waluta] =
\*     wynagrodzenia_per_waluta.get(waluta, Decimal("0.00")) + wyn
dict_get(d, key, default) == IF key \in DOMAIN d THEN d[key] ELSE default

add_wage(per, waluta, wyn) ==
    [c \in DOMAIN per \cup {waluta} |->
        IF c = waluta THEN DAdd(dict_get(per, waluta, D(0)), wyn) ELSE per[c]]

\* One iteration of the loop over pracownicy_df.iterrows().
worker_step(acc, row, godz) ==
    LET stawka == money(row.Stawka)
        waluta == waluta_of(row.Waluta)
        wyn    == wyn_of(stawka, godz)
    IN  [per |-> add_wage(acc.per, waluta, wyn),
         obl |-> Append(acc.obl,
                        [name |-> name_of(row.Imie), role |-> row.Stanowisko,
                         godz |-> godz, stawka |-> stawka, waluta |-> waluta,
                         wyn |-> wyn])]

RECURSIVE workers_loop(_, _, _)
workers_loop(acc, rows, godz) ==
    IF rows = <<>> THEN acc
    ELSE workers_loop(worker_step(acc, Head(rows), godz), Tail(rows), godz)

EmptyDict == [c \in {} |-> D(0)]

\* Mutant of saldo_po_kosztach_of: a loss is clamped to zero.
saldo_po_kosztach_clamped(przychod, koszty) ==
    IF przychod.nan \/ koszty.nan THEN NaN
    ELSE D(Max(0, przychod.c - koszty.c))

\* saldo_po_kosztach = (przychod - koszty_w_przychodzie).quantize(..)
saldo_po_kosztach_of(przychod, koszty) == DSub(przychod, koszty)

\* Mutant of wyn_w_walucie_przych_of: the wages of every currency are
\* deducted, as if converted at par.
wyn_w_walucie_przych_all(per, waluta) ==
    DAdd(dict_get(per, "PLN", D(0)), dict_get(per, "EUR", D(0)))

\* wyn_w_walucie_przych = wynagrodzenia_per_waluta.get(waluta_przychodu, 0.00)
wyn_w_walucie_przych_of(per, waluta) == dict_get(per, waluta, D(0))

\* saldo_po_kosztach_i_wyn = (saldo_po_kosztach - wyn_w_walucie_przych)
\*                           .quantize(Decimal("0.01"))
saldo_po_kosztach_i_wyn_of(saldo, wyn) == DSub(saldo, wyn)

\* pieniadze_firmy = (saldo_po_kosztach_i_wyn * Decimal("0.10")).quantize(..)
pieniadze_firmy_of(saldo) ==
    IF saldo.nan THEN NaN ELSE quantize(saldo.c * 10, 100)

\* Mutant of saldo_final_of: 90 % of the balance by one multiplication.
saldo_final_by_multiplication(saldo, firmy) ==
    IF saldo.nan THEN NaN ELSE quantize(saldo.c * 90, 100)

\* saldo_final = (saldo_po_kosztach_i_wyn - pieniadze_firmy).quantize(..)
saldo_final_of(saldo, firmy) == DSub(saldo, firmy)

\* The outcome of a call that ended in an exception.
Raised == [status |-> "error"]

\* No call made yet.
NoSummary == [status |-> "none"]

compute_summary(kwota, waluta, pproc, zus_k, mode, nproc, manual, paliwo_a, hotel_r, dni_m, dod_df, prac_df, fkwp, kwp_v, stawka_v) ==
    LET dni      == dni_of(dni_m)
        przychod == money(kwota)
        podatek  == percent_of(przychod, pproc)
        zus      == money(zus_k)
        paliwo   == money(paliwo_a)
        hotel_day == money(hotel_r)
        hotel    == hotel_total_of(hotel_day, dni)
        dodatkowe == dodatkowe_sum_of(dod_df)
        nieprzew == nieprzewidziane_kwota_of(mode, przychod, nproc, manual)
        koszty   == koszty_w_przychodzie_of(podatek, zus, paliwo, hotel,
                                            dodatkowe, nieprzew)
        godz     == godz_lacznie_na_osobe_of(dni)
        loop     == workers_loop([per |-> EmptyDict, obl |-> <<>>],
                                 prac_df, godz)
        saldo    == saldo_po_kosztach_of(przychod, koszty)
        wyn_prz  == wyn_w_walucie_przych_of(loop.per, waluta)
        saldo_w  == saldo_po_kosztach_i_wyn_of(saldo, wyn_prz)
        firmy    == pieniadze_firmy_of(saldo_w)
        final    == saldo_final_of(saldo_w, firmy)
    IN  IF \/ IntRaises(dni_m)
           \/ PercentRaises(przychod, pproc)
           \/ (mode = "percent" /\ PercentRaises(przychod, nproc))
           \/ DecimalRaises(nproc)
        THEN Raised
        ELSE [status |-> "ok",
              waluta_przychodu |-> waluta, dni_montazu |-> dni,
              hotel_day |-> hotel_day, przychod |-> przychod,
              from_kwp |-> fkwp, kwp |-> money(kwp_v),
              stawka_kwp |-> money(stawka_v),
              podatek_proc |-> pproc,
              podatek_kwota |-> podatek, zus |-> zus, paliwo |-> paliwo,
              hotel_total |-> hotel, dodatkowe_sum |-> dodatkowe,
              nieprzewidziane_mode |-> mode,
              nieprzewidziane_proc |-> nproc,
              nieprzewidziane_kwota |-> nieprzew,
              koszty_w_przychodzie |-> koszty,
              pracownicy_obliczeni |-> loop.obl,
              wynagrodzenia_per_waluta |-> loop.per,
              godziny_na_osobe |-> godz,
              saldo_po_kosztach |-> saldo, wyn_w_walucie_przych |-> wyn_prz,
              saldo_po_kosztach_i_wyn |-> saldo_w, pieniadze_firmy |-> firmy,
              saldo_final |-> final]

\* The form calls compute_summary on every run of the script with the
\* current values and keeps the result.
ComputeSummary ==
    /\ summary' = compute_summary(kwota_calkowita, waluta_przychodu,
                    podatek_proc, zus_kwota, nieprzewidziane_mode,
                    nieprzewidziane_proc, nieprzewidziane_kwota_manual,
                    paliwo_amort, hotel_day_rate, dni_montazu, dodatkowe_df,
                    pracownicy_df, from_kwp, kwp, stawka_kwp)
    /\ UNCHANGED <<kwota_calkowita, waluta_przychodu, podatek_proc, zus_kwota,
                   nieprzewidziane_mode, nieprzewidziane_proc,
                   nieprzewidziane_kwota_manual, paliwo_amort, hotel_day_rate,
                   dni_montazu, dodatkowe_df, pracownicy_df,
                   pracownicy_index, from_kwp, kwp, stawka_kwp, t2_data,
                   button, mask_puste>>

\* Neither button of the worker table was pressed in this run.
NoButton == "none"

\* No PDF built yet.
NoPdf == <<>>

\* The cost table of build_pdf below its header row: one row per cost
\* position, the extra costs as the one row of their sum.  Kwota is the
\* Decimal that fmt_money prints with the revenue currency.
t2_data_of(s) ==
    << [Pozycja |-> "Podatek skarbowy", Kwota |-> s.podatek_kwota],
       [Pozycja |-> "ZUS", Kwota |-> s.zus],
       [Pozycja |-> "Paliwo + amortyzacja", Kwota |-> s.paliwo],
       [Pozycja |-> "Hotele", Kwota |-> s.hotel_total],
       [Pozycja |-> "Koszta nieprzewidziane", Kwota |-> s.nieprzewidziane_kwota],
       [Pozycja |-> "Dodatkowe koszta (suma)", Kwota |-> s.dodatkowe_sum],
       [Pozycja |-> "Razem koszty", Kwota |-> s.koszty_w_przychodzie] >>

\* "Generuj PDF": the script runs again, computes the summary and hands it
\* to build_pdf; a call that raised ends the run before the button.
GenerujPDF ==
    /\ summary' = compute_summary(kwota_calkowita, waluta_przychodu,
                    podatek_proc, zus_kwota, nieprzewidziane_mode,
                    nieprzewidziane_proc, nieprzewidziane_kwota_manual,
                    paliwo_amort, hotel_day_rate, dni_montazu, dodatkowe_df,
                    pracownicy_df, from_kwp, kwp, stawka_kwp)
    /\ summary'.status = "ok"
    /\ t2_data' = t2_data_of(summary')
    /\ UNCHANGED <<kwota_calkowita, waluta_przychodu, podatek_proc, zus_kwota,
                   nieprzewidziane_mode, nieprzewidziane_proc,
                   nieprzewidziane_kwota_manual, paliwo_amort, hotel_day_rate,
                   dni_montazu, dodatkowe_df, pracownicy_df,
                   pracownicy_index, from_kwp, kwp, stawka_kwp,
                   button, mask_puste>>

Next == ComputeSummary \/ GenerujPDF

----------------------------------------------------------------------------
(* Inputs.  Each specification starts from every combination of the input  *)
(* values its claims are about and applies compute_summary to it.          *)

Days(n)  == [k |-> "num", m |-> n]
BadDays(kind) == [k |-> kind, m |-> 0]

Worker(imie, stawka, waluta) ==
    [Imie |-> imie, Stanowisko |-> "", Stawka |-> stawka, Waluta |-> waluta]

Extra(nazwa, koszt) == [Nazwa |-> nazwa, Koszt |-> koszt]

SeqUpTo(S, n) == UNION {[1..k -> S] : k \in 0..n}

\* The index of a DataFrame of n rows built from a list or by
\* reset_index(drop=True): the labels 0..n-1.
RangeIndex(n) == [i \in 1..n |-> i - 1]

MaxDays == 30
MaxCostDays == 2
MaxExtras == 2
MaxWageDays == 2
MaxWorkers == 2

\* The row the form creates with "Dodaj pracownika".
BlankWorker == Worker("", Num(0), "PLN")

\* Rates 20.00, 10.005 and 15.50, a cleared rate cell (NaN), a rate that is
\* no number, and a row whose currency is missing.
WorkerRows ==
    {Worker("Jan", Num(20000), "PLN"), Worker("Ewa", Num(10005), "PLN"),
     Worker("Piotr", Num(15500), "EUR"), BlankWorker,
     Worker("Ola", NaNVal, "PLN"), Worker("Uwe", NaNVal, "EUR"),
     Worker("Iga", TextVal, "PLN"), Worker("Tom", Num(12000), "")}

\* Costs 150.00 and 12.345, the empty row, and a cleared cost cell (NaN).
ExtraRows ==
    {Extra("Dojazd", Num(150000)), Extra("Tasma", Num(12345)),
     Extra("", Num(0)), Extra("Inne", NaNVal)}

\* What money() may be handed: None, "", "abc", NaN, infinity, -5.00, 100.00.
MoneyInputs == {NoneVal, BlankVal, TextVal, NaNVal, InfVal,
                Num(-5000), Num(100000)}

\* The hours of 0..MaxDays days, with and without a worker to pay.
InitHours ==
    /\ kwota_calkowita = Num(10000000)
    /\ waluta_przychodu \in {"PLN", "EUR"}
    /\ podatek_proc = Pct(11)
    /\ zus_kwota = Num(200000)
    /\ nieprzewidziane_mode = "percent"
    /\ nieprzewidziane_proc = Pct(40)
    /\ nieprzewidziane_kwota_manual = Num(0)
    /\ paliwo_amort = Num(300000)
    /\ hotel_day_rate = Num(100000)
    /\ dni_montazu \in {Days(n) : n \in 0..MaxDays}
    /\ dodatkowe_df = <<>>
    /\ pracownicy_df \in {<<>>, <<Worker("Jan", Num(20000), "PLN")>>}
    /\ pracownicy_index = RangeIndex(Len(pracownicy_df))
    /\ from_kwp = FALSE
    /\ kwp = Num(0)
    /\ stawka_kwp = Num(0)
    /\ summary = NoSummary
    /\ t2_data = NoPdf
    /\ button = NoButton
    /\ mask_puste = <<>>

\* Revenues 1.00, 1001.00 and 10000.00 with taxes of 0.5 %, 2.5 % and 5.5 %,
\* flat costs, hotel days, both contingency modes and the extra-cost rows.
InitCosts ==
    /\ kwota_calkowita \in {Num(1000), Num(1001000), Num(10000000)}
    /\ waluta_przychodu = "PLN"
    /\ podatek_proc \in {Pct(1), Pct(5), Pct(11)}
    /\ zus_kwota \in {Num(200000), Num(12000000)}
    /\ nieprzewidziane_mode \in {"percent", "manual"}
    /\ nieprzewidziane_proc \in {Pct(0), Pct(40)}
    /\ nieprzewidziane_kwota_manual \in {Num(0), Num(50000)}
    /\ paliwo_amort \in {Num(0), Num(300000)}
    /\ hotel_day_rate \in {Num(0), Num(100000)}
    /\ dni_montazu \in {Days(n) : n \in 0..MaxCostDays}
    /\ dodatkowe_df \in SeqUpTo(ExtraRows, MaxExtras)
    /\ pracownicy_df = <<>>
    /\ pracownicy_index = RangeIndex(Len(pracownicy_df))
    /\ from_kwp = FALSE
    /\ kwp = Num(0)
    /\ stawka_kwp = Num(0)
    /\ summary = NoSummary
    /\ t2_data = NoPdf
    /\ button = NoButton
    /\ mask_puste = <<>>

\* Revenues 1000.00, 1000.05 and 0.25, with and without a cost of 1500.00,
\* in either currency, and up to MaxWorkers worker rows.
InitWages ==
    /\ kwota_calkowita \in {Num(1000000), Num(1000050), Num(250)}
    /\ waluta_przychodu \in {"PLN", "EUR"}
    /\ podatek_proc = Pct(0)
    /\ zus_kwota \in {Num(0), Num(1500000)}
    /\ nieprzewidziane_mode = "manual"
    /\ nieprzewidziane_proc = Pct(0)
    /\ nieprzewidziane_kwota_manual = Num(0)
    /\ paliwo_amort = Num(0)
    /\ hotel_day_rate = Num(0)
    /\ dni_montazu \in {Days(n) : n \in 0..MaxWageDays}
    /\ dodatkowe_df = <<>>
    /\ pracownicy_df \in SeqUpTo(WorkerRows, MaxWorkers)
    /\ pracownicy_index = RangeIndex(Len(pracownicy_df))
    /\ from_kwp = FALSE
    /\ kwp = Num(0)
    /\ stawka_kwp = Num(0)
    /\ summary = NoSummary
    /\ t2_data = NoPdf
    /\ button = NoButton
    /\ mask_puste = <<>>

\* Well-formed and malformed values in the numeric fields.
InitMalformed ==
    /\ kwota_calkowita \in MoneyInputs
    /\ waluta_przychodu = "PLN"
    /\ podatek_proc \in {Pct(11), PctOther("none"), PctOther("text"),
                         PctOther("nan"), PctOther("inf")}
    /\ zus_kwota \in {Num(100000), Num(-5000), NaNVal}
    /\ nieprzewidziane_mode \in {"percent", "manual"}
    /\ nieprzewidziane_proc \in {Pct(40), PctOther("text"), PctOther("inf")}
    /\ nieprzewidziane_kwota_manual = Num(0)
    /\ paliwo_amort = Num(0)
    /\ hotel_day_rate = Num(0)
    /\ dni_montazu \in {Days(1), Days(-3), BadDays("none"), BadDays("text"),
                        BadDays("nan")}
    /\ dodatkowe_df \in {<<Extra("Inne", v)>> : v \in MoneyInputs}
    /\ pracownicy_df \in {<<Worker("Jan", v, "PLN")>> :
                             v \in {Num(20000), TextVal, NaNVal}}
    /\ pracownicy_index = RangeIndex(Len(pracownicy_df))
    /\ from_kwp = FALSE
    /\ kwp = Num(0)
    /\ stawka_kwp = Num(0)
    /\ summary = NoSummary
    /\ t2_data = NoPdf
    /\ button = NoButton
    /\ mask_puste = <<>>

----------------------------------------------------------------------------
(* The worker table of the form: st.session_state["pracownicy_df"], as its *)
(* rows (pracownicy_df) and the labels of its index (pracownicy_index).    *)

MaxRows == 3

\* df.loc[label] = row: the row with that label is overwritten, and a label
\* the index does not have is appended with the row.
loc_set(rows, index, label, row) ==
    IF \E i \in 1..Len(index) : index[i] = label
    THEN [rows  |-> [i \in 1..Len(rows) |->
                        IF index[i] = label THEN row ELSE rows[i]],
          index |-> index]
    ELSE [rows |-> Append(rows, row), index |-> Append(index, label)]

\* Series.fillna("") of the names, Series.fillna(0) == 0 of the rates.
fillna_name(n) == IF n = MissingName THEN "" ELSE n
stawka_is_zero(v) ==
    CASE v.k = "num" -> v.m = 0
      [] v.k \in {"nan", "none"} -> TRUE
      [] OTHER -> FALSE

\* Mutant of is_pusty: the rate is not looked at.
is_pusty_by_name(r) == strip(fillna_name(r.Imie)) = ""

\* One entry of mask_puste = (name.fillna("").str.strip() == "")
\*                           & (Stawka.fillna(0) == 0)
is_pusty(r) == strip(fillna_name(r.Imie)) = "" /\ stawka_is_zero(r.Stawka)

\* The summary of the run that ends with the worker rows `rows`.
summary_of_run(rows) ==
    compute_summary(kwota_calkowita, waluta_przychodu, podatek_proc,
                    zus_kwota, nieprzewidziane_mode, nieprzewidziane_proc,
                    nieprzewidziane_kwota_manual, paliwo_amort,
                    hotel_day_rate, dni_montazu, dodatkowe_df, rows,
                    from_kwp, kwp, stawka_kwp)

UnchangedForm ==
    UNCHANGED <<kwota_calkowita, waluta_przychodu, podatek_proc, zus_kwota,
                nieprzewidziane_mode, nieprzewidziane_proc,
                nieprzewidziane_kwota_manual, paliwo_amort, hotel_day_rate,
                dni_montazu, dodatkowe_df, from_kwp, kwp, stawka_kwp, t2_data>>

\* "Dodaj pracownika": df.loc[len(df)] = the blank row; the run then
\* computes the summary.
DodajPracownika ==
    /\ Len(pracownicy_df) < MaxRows
    /\ LET df == loc_set(pracownicy_df, pracownicy_index,
                         Len(pracownicy_df),
                         [Imie |-> "", Stanowisko |-> "", Stawka |-> Num(0),
                          Waluta |-> "PLN"])
       IN  /\ pracownicy_df' = df.rows
           /\ pracownicy_index' = df.index
           /\ summary' = summary_of_run(df.rows)
    /\ button' = "dodaj"
    /\ mask_puste' = <<>>
    /\ UnchangedForm

\* "Usun pustych": df[~mask_puste].reset_index(drop=True); the run then
\* computes the summary.
UsunPustych ==
    /\ mask_puste' = [i \in 1..Len(pracownicy_df) |->
                         is_pusty(pracownicy_df[i])]
    /\ pracownicy_df' = SelectSeq(pracownicy_df, LAMBDA r : ~is_pusty(r))
    /\ pracownicy_index' = RangeIndex(Len(pracownicy_df'))
    /\ summary' = summary_of_run(pracownicy_df')
    /\ button' = "usun"
    /\ UnchangedForm

\* The names and rates typed into the cells of st.data_editor: an empty
\* name, one of white space, a name, a cleared name; 0, a cleared rate, 20.00.
EditorNames == {"", " ", "Jan", MissingName}
EditorRates == {Num(0), NaNVal, Num(20000)}

\* A cell of the table is edited; the edited table is stored and the run
\* computes the summary.
EdytujKomorke ==
    /\ \E i \in 1..Len(pracownicy_df) :
          \/ \E n \in EditorNames \ {pracownicy_df[i].Imie} :
                pracownicy_df' = [pracownicy_df EXCEPT ![i].Imie = n]
          \/ \E v \in EditorRates \ {pracownicy_df[i].Stawka} :
                pracownicy_df' = [pracownicy_df EXCEPT ![i].Stawka = v]
    /\ summary' = summary_of_run(pracownicy_df')
    /\ button' = NoButton
    /\ mask_puste' = <<>>
    /\ UNCHANGED pracownicy_index
    /\ UnchangedForm

NextTable == DodajPracownika \/ UsunPustych \/ EdytujKomorke

\* The form after its first run: the table of one blank row and its summary.
InitTable ==
    /\ kwota_calkowita = Num(1000000)
    /\ waluta_przychodu = "PLN"
    /\ podatek_proc = Pct(11)
    /\ zus_kwota = Num(0)
    /\ nieprzewidziane_mode = "percent"
    /\ nieprzewidziane_proc = Pct(40)
    /\ nieprzewidziane_kwota_manual = Num(0)
    /\ paliwo_amort = Num(0)
    /\ hotel_day_rate = Num(0)
    /\ dni_montazu = Days(1)
    /\ dodatkowe_df = <<>>
    /\ pracownicy_df = <<BlankWorker>>
    /\ pracownicy_index = RangeIndex(1)
    /\ from_kwp = FALSE
    /\ kwp = Num(0)
    /\ stawka_kwp = Num(0)
    /\ summary = summary_of_run(<<BlankWorker>>)
    /\ t2_data = NoPdf
    /\ button = NoButton
    /\ mask_puste = <<>>

SpecTable == InitTable /\ [][NextTable]_vars

----------------------------------------------------------------------------
\* "Z kWp": kwp_value = Decimal(str(..)), stawka_kwp = Decimal(str(..)) and
\* kwota_calkowita = float(kwp_value * stawka_kwp).  The product of two
\* amounts in thousandths is kept to its third fractional digit, the digit
\* that decides money()'s rounding; the float and its str() are exact for
\* amounts of this size.
kwota_from_kwp(kwp_v, stawka_v) ==
    Num(kwp_v.m * (stawka_v.m \div 1000)
        + (kwp_v.m * (stawka_v.m % 1000)) \div 1000)

\* Capacities 0, 5.5, 5.555 and 1.005 kWp at 900.00, 850.50 and 100.005 per
\* kWp, and manually entered revenues while the session still holds a
\* capacity and a rate.
KwpValues == {Num(0), Num(5500), Num(5555), Num(1005)}
StawkaKwpValues == {Num(900000), Num(850500), Num(100005)}

InitCapacity ==
    /\ from_kwp \in BOOLEAN
    /\ kwp \in KwpValues
    /\ stawka_kwp \in StawkaKwpValues
    /\ kwota_calkowita \in
         IF from_kwp THEN {kwota_from_kwp(kwp, stawka_kwp)}
         ELSE {Num(4950000), Num(4999500)}
    /\ waluta_przychodu = "PLN"
    /\ podatek_proc \in {Pct(0), Pct(11)}
    /\ zus_kwota \in {Num(0), Num(200000)}
    /\ nieprzewidziane_mode \in {"percent", "manual"}
    /\ nieprzewidziane_proc = IF nieprzewidziane_mode = "percent" THEN Pct(40) ELSE Pct(0)
    /\ nieprzewidziane_kwota_manual = IF nieprzewidziane_mode = "percent" THEN Num(0) ELSE Num(50000)
    /\ paliwo_amort = Num(0)
    /\ hotel_day_rate = Num(100000)
    /\ dni_montazu \in {Days(0), Days(2)}
    /\ dodatkowe_df = <<>>
    /\ pracownicy_df \in {<<>>, <<Worker("Jan", Num(20000), "PLN")>>}
    /\ pracownicy_index = RangeIndex(Len(pracownicy_df))
    /\ summary = NoSummary
    /\ t2_data = NoPdf
    /\ button = NoButton
    /\ mask_puste = <<>>

\* Contingency percentages 0, 5 and 20 and one that is no number, manual
\* amounts 0.00, 50.00 and 12.345, over revenues 1000.00, 1001.30 and 0.10,
\* in both modes.
ProcValues == {Pct(0), Pct(10), Pct(40), PctOther("text")}
ManualValues == {Num(0), Num(50000), Num(12345)}

InitContingency ==
    /\ kwota_calkowita \in {Num(1000000), Num(1001300), Num(100)}
    /\ waluta_przychodu = "PLN"
    /\ podatek_proc = Pct(11)
    /\ zus_kwota \in {Num(0), Num(200000)}
    /\ nieprzewidziane_mode \in {"percent", "manual"}
    /\ nieprzewidziane_proc \in ProcValues
    /\ nieprzewidziane_kwota_manual \in ManualValues
    /\ paliwo_amort = Num(0)
    /\ hotel_day_rate = Num(100000)
    /\ dni_montazu \in {Days(0), Days(1)}
    /\ dodatkowe_df = <<>>
    /\ pracownicy_df = <<>>
    /\ pracownicy_index = RangeIndex(Len(pracownicy_df))
    /\ from_kwp = FALSE
    /\ kwp = Num(0)
    /\ stawka_kwp = Num(0)
    /\ summary = NoSummary
    /\ t2_data = NoPdf
    /\ button = NoButton
    /\ mask_puste = <<>>

SpecHours     == InitHours /\ [][Next]_vars
SpecCosts     == InitCosts /\ [][Next]_vars
SpecWages     == InitWages /\ [][Next]_vars
SpecMalformed == InitMalformed /\ [][Next]_vars
SpecCapacity  == InitCapacity /\ [][Next]_vars
SpecContingency == InitContingency /\ [][Next]_vars

Init == InitHours \/ InitCosts \/ InitWages \/ InitMalformed \/ InitCapacity
          \/ InitContingency
Spec == Init /\ [][Next]_vars

----------------------------------------------------------------------------
(* Claims.  Ok says that the last call returned a summary.                 *)

Ok == summary.status = "ok"

Week7 == <<10, 10, 10, 10, 10, 8, 0>>

\* C1: for every days >= 0 the hours are (days div 7) * 58 plus the first
\* (days mod 7) entries of the weekly pattern [10,10,10,10,10,8,0]: the
\* seventh day of a week is a rest day of 0 hours, so 7 days are 58 hours,
\* 8 days 68 and 14 days 116.
C1_HoursSevenDayWeek ==
    Ok => LET d == summary.dni_montazu
          IN  summary.godziny_na_osobe =
                D(100 * ((d \div 7) * 58 + SumSeq(SubSeq(Week7, 1, d % 7))))

\* C2: the tax amount is revenue * tax percentage / 100 rounded to 2 places
\* half-up, never half-even.
C2_TaxRoundsHalfUp ==
    (Ok /\ ~summary.przychod.nan /\ podatek_proc.k = "num") =>
        summary.podatek_kwota =
            D(RoundHalfUp(summary.przychod.c * podatek_proc.h, 200))

\* C3: the company margin is balance_after_wages * 0.10 rounded half-up to
\* 2 places and is never clamped: a negative balance gives a negative
\* margin.
C3_MarginRoundsHalfUp ==
    (Ok /\ ~summary.saldo_po_kosztach_i_wyn.nan) =>
        /\ summary.pieniadze_firmy =
             D(RoundHalfUp(summary.saldo_po_kosztach_i_wyn.c * 10, 100))
        /\ summary.saldo_po_kosztach_i_wyn.c < 0 =>
             summary.pieniadze_firmy.c < 0

\* The currency a worker row counts under: a missing currency is PLN.
RowCurrency(r) == IF r.Waluta = "" THEN "PLN" ELSE r.Waluta

IsForeign(r) == RowCurrency(r) # waluta_przychodu
IsOwn(r)     == RowCurrency(r) = waluta_przychodu

\* The summary of the same inputs with the worker rows `rows`.
SummaryWithWorkers(rows) ==
    compute_summary(kwota_calkowita, waluta_przychodu, podatek_proc,
                    zus_kwota, nieprzewidziane_mode, nieprzewidziane_proc,
                    nieprzewidziane_kwota_manual, paliwo_amort,
                    hotel_day_rate, dni_montazu, dodatkowe_df, rows,
                    from_kwp, kwp, stawka_kwp)

\* C4: no-FX invariant.  The summary has the balance after wages, the
\* company margin and the final balance of the summary computed from the same
\* inputs without the workers of another currency than the revenue's; two
\* inputs that differ only in such workers therefore agree on all three.
\* Those workers' wages are in no bucket but their own: every bucket holds
\* what it holds when the workers of its currency are the only ones.
C4_NoFX ==
    Ok => LET base == SummaryWithWorkers(SelectSeq(pracownicy_df, IsOwn))
          IN  /\ base.status = "ok"
              /\ summary.saldo_po_kosztach_i_wyn = base.saldo_po_kosztach_i_wyn
              /\ summary.pieniadze_firmy = base.pieniadze_firmy
              /\ summary.saldo_final = base.saldo_final
              /\ summary.wyn_w_walucie_przych = base.wyn_w_walucie_przych
              /\ \A c \in DOMAIN summary.wynagrodzenia_per_waluta :
                    LET only == SelectSeq(pracownicy_df,
                                          LAMBDA r : RowCurrency(r) = c)
                    IN  /\ only # <<>>
                        /\ summary.wynagrodzenia_per_waluta[c] =
                             SummaryWithWorkers(only)
                                 .wynagrodzenia_per_waluta[c]

\* A summary with a paid worker in the revenue currency and a paid worker in
\* another currency.
C4_Witness ==
    /\ Ok
    /\ \E i, j \in 1..Len(pracownicy_df) :
          /\ IsForeign(pracownicy_df[i]) /\ IsOwn(pracownicy_df[j])
          /\ ~summary.pracownicy_obliczeni[i].wyn.nan
          /\ summary.pracownicy_obliczeni[i].wyn.c > 0
          /\ ~summary.pracownicy_obliczeni[j].wyn.nan
          /\ summary.pracownicy_obliczeni[j].wyn.c > 0
    /\ ~summary.saldo_final.nan

\* C5 as stated: every worker's wage is round2(hourly_rate * total_hours)
\* for the rate as entered, not a rate rounded beforehand.
C5_WageFromEnteredRate ==
    Ok => \A i \in 1..Len(pracownicy_df) :
            pracownicy_df[i].Stawka.k = "num" =>
                summary.pracownicy_obliczeni[i].wyn =
                    D(RoundHalfUp(pracownicy_df[i].Stawka.m
                                    * summary.godziny_na_osobe.c, 1000))

\* C5 amended: every worker row is reported with the entered rate rounded
\* half-up to 2 places (0.00 for a rate that does not parse, NaN for NaN),
\* with the one total_hours of the summary, and with the wage
\* round2(rounded rate * total_hours).
C5_WageFromRoundedRate ==
    Ok => /\ Len(summary.pracownicy_obliczeni) = Len(pracownicy_df)
          /\ \A i \in 1..Len(pracownicy_df) :
                LET row == summary.pracownicy_obliczeni[i]
                    in  == pracownicy_df[i].Stawka
                IN  /\ row.godz = summary.godziny_na_osobe
                    /\ in.k = "num" => row.stawka = D(RoundHalfUp(in.m, 10))
                    /\ in.k = "nan" => row.stawka.nan
                    /\ in.k \notin {"num", "nan"} => row.stawka = D(0)
                    /\ IF row.stawka.nan THEN row.wyn.nan
                       ELSE row.wyn =
                              D(RoundHalfUp(row.stawka.c * row.godz.c, 100))

\* A worker entered with the rate 10.005 and paid for 10 hours or more.
C5_Witness ==
    /\ Ok
    /\ summary.godziny_na_osobe.c >= 1000
    /\ \E i \in 1..Len(pracownicy_df) :
          /\ pracownicy_df[i].Stawka = Num(10005)
          /\ summary.pracownicy_obliczeni[i].stawka = D(1001)
          /\ summary.pracownicy_obliczeni[i].wyn.c
                = 1001 * (summary.godziny_na_osobe.c \div 100)

\* The six cost items of the summary, in the order the engine adds them.
CostItems ==
    <<summary.podatek_kwota, summary.zus, summary.paliwo,
      summary.hotel_total, summary.dodatkowe_sum,
      summary.nieprzewidziane_kwota>>

AnyNaN(items) == \E i \in 1..Len(items) : items[i].nan

RECURSIVE SumC(_)
SumC(items) == IF items = <<>> THEN 0 ELSE Head(items).c + SumC(Tail(items))

\* C6: hotel_total is the hotel rate times the installation days, total_costs
\* is exactly tax + social contribution + fuel and depreciation + hotel_total
\* + contingency + extra costs, and balance_after_costs is revenue minus
\* total_costs, not clamped: it is negative whenever the costs exceed the
\* revenue.  (An item that is NaN makes the total and the balance NaN.)
C6_BalanceAfterCosts ==
    Ok => /\ IF summary.hotel_day.nan THEN summary.hotel_total.nan
             ELSE summary.hotel_total =
                    D(summary.hotel_day.c * summary.dni_montazu)
          /\ IF AnyNaN(CostItems) THEN summary.koszty_w_przychodzie.nan
             ELSE summary.koszty_w_przychodzie = D(SumC(CostItems))
          /\ IF summary.przychod.nan \/ summary.koszty_w_przychodzie.nan
             THEN summary.saldo_po_kosztach.nan
             ELSE /\ summary.saldo_po_kosztach =
                       D(summary.przychod.c - summary.koszty_w_przychodzie.c)
                  /\ summary.koszty_w_przychodzie.c > summary.przychod.c
                       => summary.saldo_po_kosztach.c < 0

\* A summary whose six cost items are all positive and together exceed the
\* revenue, with the negative balance reported.
C6_Witness ==
    /\ Ok
    /\ ~AnyNaN(CostItems)
    /\ \A i \in 1..Len(CostItems) : CostItems[i].c > 0
    /\ summary.koszty_w_przychodzie.c > summary.przychod.c
    /\ summary.saldo_po_kosztach.c < 0

\* C7: balance_after_wages = balance_after_costs - wages in the revenue
\* currency and final_balance = balance_after_wages - company_margin hold
\* exactly on the reported values, so that margin + final balance add back
\* to the balance after wages to the cent.  (A NaN operand makes the
\* difference NaN.)
C7_BalanceIdentities ==
    Ok => /\ IF summary.saldo_po_kosztach.nan
                \/ summary.wyn_w_walucie_przych.nan
             THEN summary.saldo_po_kosztach_i_wyn.nan
             ELSE summary.saldo_po_kosztach_i_wyn =
                    D(summary.saldo_po_kosztach.c
                        - summary.wyn_w_walucie_przych.c)
          /\ IF summary.saldo_po_kosztach_i_wyn.nan
             THEN summary.pieniadze_firmy.nan /\ summary.saldo_final.nan
             ELSE /\ ~summary.pieniadze_firmy.nan
                  /\ ~summary.saldo_final.nan
                  /\ summary.saldo_final.c =
                       summary.saldo_po_kosztach_i_wyn.c
                         - summary.pieniadze_firmy.c
                  /\ summary.pieniadze_firmy.c + summary.saldo_final.c =
                       summary.saldo_po_kosztach_i_wyn.c

\* A summary with wages deducted in the revenue currency whose balance after
\* wages ends in 5 hundredths, so that the margin had to be rounded.
C7_Witness ==
    /\ Ok
    /\ ~summary.saldo_po_kosztach_i_wyn.nan
    /\ summary.wyn_w_walucie_przych.c > 0
    /\ summary.saldo_po_kosztach_i_wyn.c % 10 = 5
    /\ summary.pieniadze_firmy.c # 0

\* A value that is not a non-negative decimal.
Unparseable(v) == v.k # "num" \/ v.m < 0

\* C8: a monetary value that is missing, blank, non-numeric, NaN, infinite
\* or negative is treated as 0.00: money() returns 0.00 for it and it adds
\* 0.00 to the sums.
C8_UnparseableIsZero ==
    Ok => /\ Unparseable(kwota_calkowita) => summary.przychod = D(0)
          /\ Unparseable(zus_kwota) => summary.zus = D(0)
          /\ (\A i \in 1..Len(dodatkowe_df) :
                 Unparseable(dodatkowe_df[i].Koszt))
               => summary.dodatkowe_sum = D(0)
          /\ \A i \in 1..Len(pracownicy_df) :
                 Unparseable(pracownicy_df[i].Stawka)
                   => summary.pracownicy_obliczeni[i].stawka = D(0)

\* C9: compute_summary is total: whatever the numeric fields hold, the call
\* returns a complete summary and never ends in an error.
C9_AlwaysReturnsSummary == summary.status # "error"

\* The wages of the worker rows of currency c, added in row order.
RECURSIVE WagesOf(_, _)
WagesOf(rows, c) ==
    IF rows = <<>> THEN D(0)
    ELSE LET r == rows[Len(rows)]
             rest == WagesOf(SubSeq(rows, 1, Len(rows) - 1), c)
         IN  IF r.waluta = c THEN DAdd(rest, r.wyn) ELSE rest

\* C10: wages_by_currency has exactly the currencies of the worker rows;
\* each entry is the sum, in input order, of the wages of the workers of
\* that currency, and is a value of 2 fractional digits.
C10_WagesByCurrency ==
    Ok => /\ DOMAIN summary.wynagrodzenia_per_waluta =
                {RowCurrency(pracownicy_df[i]) :
                     i \in 1..Len(pracownicy_df)}
          /\ \A c \in DOMAIN summary.wynagrodzenia_per_waluta :
                /\ summary.wynagrodzenia_per_waluta[c] =
                     WagesOf(summary.pracownicy_obliczeni, c)
                /\ ~summary.wynagrodzenia_per_waluta[c].nan

\* The cost positions build_pdf always prints.
FixedPositions ==
    {"Podatek skarbowy", "ZUS", "Paliwo + amortyzacja", "Hotele",
     "Koszta nieprzewidziane", "Dodatkowe koszta (suma)", "Razem koszty"}

\* An extra-cost row other than the row with an empty name and a zero amount.
ContributingExtra(r) == ~(r.Nazwa = "" /\ r.Koszt = Num(0))

\* The rows of the printed cost table that itemize extra costs.
ItemizedExtras(t) == SelectSeq(t, LAMBDA r : r.Pozycja \notin FixedPositions)

\* The itemized list the rows df call for: the contributing rows, in input
\* order, each with its amount.
ExpectedItems(df) ==
    LET rows == SelectSeq(df, ContributingExtra)
    IN  [i \in 1..Len(rows) |->
            [Pozycja |-> rows[i].Nazwa, Kwota |-> money(rows[i].Koszt)]]

\* C11: a row with an empty name and a zero amount adds 0 to the sum of the
\* extra costs and is absent from the itemized extra-cost list of the
\* output; every other row adds its amount and is in that list, in input
\* order.
C11_ExtraCostFiltering ==
    (t2_data # NoPdf) =>
        /\ summary.dodatkowe_sum =
             dodatkowe_sum_of(SelectSeq(dodatkowe_df, ContributingExtra))
        /\ LET rows == SelectSeq(dodatkowe_df, ContributingExtra)
           IN  Len(rows) = 1 =>
                   summary.dodatkowe_sum = money(rows[1].Koszt)
        /\ ItemizedExtras(t2_data) = ExpectedItems(dodatkowe_df)

\* The figures computed from the revenue.
Downstream(s) ==
    [przychod |-> s.przychod, podatek_kwota |-> s.podatek_kwota,
     nieprzewidziane_kwota |-> s.nieprzewidziane_kwota,
     koszty_w_przychodzie |-> s.koszty_w_przychodzie,
     saldo_po_kosztach |-> s.saldo_po_kosztach,
     saldo_po_kosztach_i_wyn |-> s.saldo_po_kosztach_i_wyn,
     pieniadze_firmy |-> s.pieniadze_firmy, saldo_final |-> s.saldo_final]

\* The summary of the same form with the revenue r typed in by hand.
SummaryManualRevenue(r) ==
    compute_summary(Num(10 * r.c), waluta_przychodu, podatek_proc, zus_kwota,
                    nieprzewidziane_mode, nieprzewidziane_proc,
                    nieprzewidziane_kwota_manual, paliwo_amort,
                    hotel_day_rate, dni_montazu, dodatkowe_df, pracownicy_df,
                    FALSE, Num(0), Num(0))

\* C12: a summary computed from the capacity has the revenue
\* round2(capacity * rate) of the capacity and the rate it reports, and its
\* tax, contingency, balances and margin are those of the same revenue
\* entered by hand.
C12_CapacityRevenue ==
    (Ok /\ summary.from_kwp) =>
        /\ summary.przychod =
             D(RoundHalfUp(summary.kwp.c * summary.stawka_kwp.c, 100))
        /\ Downstream(summary) =
             Downstream(SummaryManualRevenue(summary.przychod))

\* The contingency amount of a call, or that the call raised.
ContingencyOf(s) ==
    IF s.status = "ok" THEN [raised |-> FALSE, kwota |-> s.nieprzewidziane_kwota]
    ELSE [raised |-> TRUE, kwota |-> D(0)]

\* The call of the current form with another percentage and manual amount.
SummaryWithContingency(proc, manual) ==
    compute_summary(kwota_calkowita, waluta_przychodu, podatek_proc,
                    zus_kwota, nieprzewidziane_mode, proc, manual,
                    paliwo_amort, hotel_day_rate, dni_montazu, dodatkowe_df,
                    pracownicy_df, from_kwp, kwp, stawka_kwp)

\* In Percent mode the manual amount is without effect.
ManualIgnoredInPercentMode ==
    nieprzewidziane_mode = "percent" =>
        \A m \in ManualValues :
            ContingencyOf(SummaryWithContingency(nieprzewidziane_proc, m))
                = ContingencyOf(summary)

\* In Manual mode the amount is the entered one, at 2 fractional digits.
ManualAmountInManualMode ==
    (Ok /\ nieprzewidziane_mode = "manual") =>
        summary.nieprzewidziane_kwota = money(nieprzewidziane_kwota_manual)

\* C13: the contingency amount is round2(revenue * percentage / 100), rounded
\* half-up, in Percent mode and the manually entered amount in Manual mode;
\* the manual amount has no effect in Percent mode and the percentage has
\* none in Manual mode.
C13_ContingencyModes ==
    (summary # NoSummary) =>
        /\ (Ok /\ nieprzewidziane_mode = "percent") =>
               summary.nieprzewidziane_kwota =
                   D(RoundHalfUp(summary.przychod.c * nieprzewidziane_proc.h,
                                 200))
        /\ ManualAmountInManualMode
        /\ ManualIgnoredInPercentMode
        /\ nieprzewidziane_mode = "manual" =>
               \A p \in ProcValues :
                   ContingencyOf(SummaryWithContingency(
                       p, nieprzewidziane_kwota_manual)) = ContingencyOf(summary)

\* The worker rows with PLN written into every missing or empty currency.
WithPLN(rows) ==
    [i \in 1..Len(rows) |->
        IF rows[i].Waluta = "" THEN [rows[i] EXCEPT !.Waluta = "PLN"]
        ELSE rows[i]]

\* The positions of the rows whose currency is missing or empty.
NoCurrency == {i \in 1..Len(pracownicy_df) : pracownicy_df[i].Waluta = ""}

NoName(r) == r.Imie \in {"", " ", MissingName}

\* The row "Usun pustych" is said to delete: no name and a rate of 0.
EmptyAsStated(r) == NoName(r) /\ r.Stawka = Num(0)

\* The row it deletes: no name and a rate of 0 or a cleared rate cell.
EmptyOrCleared(r) == NoName(r) /\ r.Stawka \in {Num(0), NaNVal}

\* A step of "Usun pustych" deletes the rows that are Empty, keeps the
\* others as they are and in their order, and leaves no row for a second
\* application to delete.
RemoveDeletes(Empty(_)) ==
    button' = "usun" =>
        /\ pracownicy_df' = SelectSeq(pracownicy_df, LAMBDA r : ~Empty(r))
        /\ SelectSeq(pracownicy_df', LAMBDA r : ~Empty(r)) = pracownicy_df'

\* A step of "Dodaj pracownika" appends one blank row (no name, no role,
\* rate 0, PLN) and keeps the rows there were.
AddAppends ==
    button' = "dodaj" =>
        pracownicy_df' =
            Append(pracownicy_df,
                   [Imie |-> "", Stanowisko |-> "", Stawka |-> Num(0),
                    Waluta |-> "PLN"])

====
